---- MODULE Spec2Model ----
(***************************************************************************)
(* Magic Password Manager (mpm.py): the encrypted csv vault, its           *)
(* create / open / save / delete functions and the commands of main().     *)
(*                                                                         *)
(* A Python str is a sequence of one-character strings ("index" is         *)
(* <<"i","n","d","e","x">>).  A csv file is the sequence of its rows, a    *)
(* row the sequence of its cells.  cryptocode tokens are base64 text       *)
(* joined by "*": they hold no comma, quote or newline, so csv.writer      *)
(* writes them unquoted and csv.reader splits them back cell by cell; an   *)
(* empty row is written as a blank line and read back as [].               *)
(***************************************************************************)
EXTENDS Integers, Sequences, FiniteSets, TLC

\* ------------------------------------------------------------------ bounds

\* add is not issued once the databases hold this many entries together
MaxEntries == 2

\* create_random_password is called with every length up to this one
MaxLength == 45

\* ------------------------------------------------------------------ inputs

DatabaseNames == { <<"a">>, <<"a", ".", "b">> }

\* the database of the runs with direct calls, foreign files, killed saves
OneDatabase == { <<"a">> }

MasterPwds == { <<"p">>, <<"q">> }

Titles == { <<"S">> }

Usernames == { <<"u">> }

\* args.password_length: <<>> is None (-l omitted), <<n>> is the integer n
PasswordLengths == { <<>>, <<3>>, <<10>>, <<44>> }

\* args.index of the remove command
Indexes == { -1, 0, 1, 2, 3, 99 }

\* ------------------------------------------------------------ Python values

\* the value False, which is equal to no str
PyFalse == << "False" >>

S_index == << "i", "n", "d", "e", "x" >>
S_title == << "t", "i", "t", "l", "e" >>
S_username == << "u", "s", "e", "r", "n", "a", "m", "e" >>
S_password == << "p", "a", "s", "s", "w", "o", "r", "d" >>

Digits == << "0", "1", "2", "3", "4", "5", "6", "7", "8", "9" >>

\* str(i) of an integer i >= 0
RECURSIVE str(_)
str(i) == IF i < 10 THEN << Digits[i + 1] >>
          ELSE str(i \div 10) \o << Digits[(i % 10) + 1] >>

\* n copies of the character c
Rep(c, n) == [ k \in 1..n |-> c ]

\* ------------------------------------------------------------- cryptocode

\* cryptocode.encrypt(message, password): a token that holds the message
\* sealed under the password.  bytes(message, "utf-8") raises TypeError on a
\* message that is not a str; the callers test IsStr first.
encrypt(message, password) == [ ct |-> message, key |-> password ]

IsStr(v) == v # PyFalse

\* faulty variant: the password is not checked
decrypt_AnyPassword(token, password) ==
    IF "key" \in DOMAIN token THEN token.ct ELSE PyFalse

\* cryptocode.decrypt(token, password): the message when the token is
\* well formed and was sealed under the same password; False otherwise
\* (a malformed token, or a failed tag verification).
decrypt(token, password) ==
    IF "key" \in DOMAIN token /\ token.key = password THEN token.ct ELSE PyFalse

\* a cell that is no cryptocode token: plain text written by another program
RawCell(text) == [ raw |-> text ]

\* ------------------------------------------------------- create_random_password

MINIMUM_LENGTH == 5

\* sizes of string.ascii_lowercase, ascii_uppercase, digits, punctuation
N_LOWER == 26
N_UPPER == 26
N_DIGITS == 10
N_PUNCT == 32

\* create_random_password(password_length).  The characters drawn are
\* written by class ("a" lower case, "A" upper case, "0" digit, "!"
\* punctuation); random.shuffle permutes them, the result is kept here in
\* the order the groups are drawn.  err is the exception raised, "ok" if none.
create_random_password(password_length) ==
    IF password_length = <<>>
    THEN [ err |-> "TypeError", value |-> <<>> ]       \* None < 5
    ELSE LET given == password_length[1]
             n     == IF given < MINIMUM_LENGTH THEN MINIMUM_LENGTH ELSE given
             count_characters_per_group == n \div 4
             count_rest == n % 4
         IN  IF \/ count_characters_per_group + count_rest > N_LOWER
                \/ count_characters_per_group > N_UPPER
                \/ count_characters_per_group > N_DIGITS
                \/ count_characters_per_group > N_PUNCT
             THEN [ err |-> "ValueError", value |-> <<>> ]  \* random.sample
             ELSE [ err |-> "ok",
                    value |-> Rep("a", count_characters_per_group + count_rest)
                              \o Rep("A", count_characters_per_group)
                              \o Rep("0", count_characters_per_group)
                              \o Rep("!", count_characters_per_group) ]

\* ------------------------------------------------------------------- state

VARIABLES
    files,   \* the *.mpmdb files: database name -> csv rows of cells
    old,     \* files as they were when the last command started
    cmd,     \* the last command or function call and its arguments
    out      \* its outcome

vars == << files, old, cmd, out >>

exists(fs, database) == database \in DOMAIN fs

\* fs with the file of database written with rows
WriteFile(fs, database, rows) ==
    [ d \in DOMAIN fs \cup {database} |-> IF d = database THEN rows ELSE fs[d] ]

\* fs without the file of database
RemoveFile(fs, database) == [ d \in DOMAIN fs \ {database} |-> fs[d] ]

row_header == << S_index, S_title, S_username, S_password >>

EncryptRow(row, master_pwd) == [ k \in 1..Len(row) |-> encrypt(row[k], master_pwd) ]

DecryptRow(row, master_pwd) == [ k \in 1..Len(row) |-> decrypt(row[k], master_pwd) ]

\* ------------------------------------------------------ the vault functions

\* faulty variant: the header is written as it is, not encrypted
create_empty_database_Plain(fs, database, master_pwd) ==
    IF exists(fs, database)
    THEN [ err |-> "FileExistsError", files |-> fs ]
    ELSE [ err |-> "ok",
           files |-> WriteFile(fs, database,
                               << [ k \in 1..4 |-> RawCell(row_header[k]) ] >>) ]

\* faulty variant: the header row is sealed as one token
create_empty_database_OneToken(fs, database, master_pwd) ==
    IF exists(fs, database)
    THEN [ err |-> "FileExistsError", files |-> fs ]
    ELSE [ err |-> "ok",
           files |-> WriteFile(fs, database, << << encrypt(row_header, master_pwd) >> >>) ]

\* faulty variant: the file is written whether it exists or not
create_empty_database_Overwrite(fs, database, master_pwd) ==
    [ err |-> IF exists(fs, database) THEN "FileExistsError" ELSE "ok",
      files |-> WriteFile(fs, database, << EncryptRow(row_header, master_pwd) >>) ]

\* create_empty_database(database, master_pwd)
create_empty_database(fs, database, master_pwd) ==
    IF exists(fs, database)
    THEN [ err |-> "FileExistsError", files |-> fs ]
    ELSE [ err |-> "ok",
           files |-> WriteFile(fs, database, << EncryptRow(row_header, master_pwd) >>) ]

\* faulty variant: the comparison ignores case
HeaderMatches_IgnoreCase(rows) ==
    rows[1][1] \in { S_index, << "I", "n", "d", "e", "x" >> }

\* the check of the first decrypted cell against "index"
HeaderMatches(rows) == rows[1][1] = S_index

\* open_database(database, master_pwd)
open_database(fs, database, master_pwd) ==
    IF ~ exists(fs, database)
    THEN [ err |-> "FileNotFoundError", rows |-> <<>> ]
    ELSE LET password_rows == fs[database]
             password_rows_decrypted ==
                 [ r \in 1..Len(password_rows) |->
                       DecryptRow(password_rows[r], master_pwd) ]
         IN  IF Len(password_rows_decrypted) = 0
             THEN [ err |-> "IndexError", rows |-> <<>> ]
             ELSE IF Len(password_rows_decrypted[1]) = 0
             THEN [ err |-> "IndexError", rows |-> <<>> ]
             ELSE IF ~ HeaderMatches(password_rows_decrypted)
             THEN [ err |-> "ValueError", rows |-> <<>> ]
             ELSE [ err |-> "ok", rows |-> password_rows_decrypted ]

\* the rows a call of save_database encrypts: all of them, or those before
\* the first row with a cell that is no str (encrypt raises there)
Encryptable(row) == \A k \in 1..Len(row) : IsStr(row[k])

Writable(rows) ==
    IF \A r \in 1..Len(rows) : Encryptable(rows[r])
    THEN Len(rows)
    ELSE (CHOOSE r \in 1..Len(rows) :
              /\ ~ Encryptable(rows[r])
              /\ \A q \in 1..(r - 1) : Encryptable(rows[q])) - 1

\* faulty variant: the file is opened to append
Truncated_Append(previous) == previous

\* what open(db_file, "w") leaves of the file before the first row is written
Truncated(previous) == <<>>

\* save_database(database, master_pwd, rows)
save_database(fs, database, master_pwd, rows) ==
    LET n == Writable(rows)
        written == Truncated(IF exists(fs, database) THEN fs[database] ELSE <<>>)
                   \o [ r \in 1..n |-> EncryptRow(rows[r], master_pwd) ]
    IN  [ err |-> IF n = Len(rows) THEN "ok" ELSE "TypeError",
          files |-> WriteFile(fs, database, written) ]

\* faulty variant: the file is emptied, not removed
delete_database_Emptied(fs, database) ==
    IF ~ exists(fs, database)
    THEN [ err |-> "FileNotFoundError", files |-> fs ]
    ELSE [ err |-> "ok", files |-> WriteFile(fs, database, <<>>) ]

\* delete_database(database)
delete_database(fs, database) ==
    IF ~ exists(fs, database)
    THEN [ err |-> "FileNotFoundError", files |-> fs ]
    ELSE [ err |-> "ok", files |-> RemoveFile(fs, database) ]

\* get_database_names(): glob.glob("*.mpmdb") lists the files in the order
\* the directory gives them; each name is cut at its first "."
SplitFirst(db_file) ==
    IF \E k \in 1..Len(db_file) : db_file[k] = "."
    THEN SubSeq(db_file, 1,
                (CHOOSE k \in 1..Len(db_file) :
                     /\ db_file[k] = "."
                     /\ \A j \in 1..(k - 1) : db_file[j] # ".") - 1)
    ELSE db_file

Extension == << ".", "m", "p", "m", "d", "b" >>

GlobOrders(fs) ==
    { o \in [ 1..Cardinality(DOMAIN fs) -> DOMAIN fs ] :
          \A i, j \in DOMAIN o : o[i] = o[j] => i = j }

get_database_names(db_files) ==
    [ k \in 1..Len(db_files) |-> SplitFirst(db_files[k] \o Extension) ]

\* ------------------------------------------------------ the commands of main

\* the process ends by sys.exit(message): the message on one line, status 1
SysExit(err, msg) == [ err |-> err, exit |-> 1, msg |-> msg, rows |-> <<>> ]

\* the process ends by an exception nothing catches: a traceback, status 1
Uncaught(err) == [ err |-> err, exit |-> 1, msg |-> "Traceback", rows |-> <<>> ]

\* the command prints and returns
Done(msg, rows) == [ err |-> "ok", exit |-> 0, msg |-> msg, rows |-> rows ]

\* the except clauses around open_database in open-db, add and remove
OpenFailed(err) == IF err \in { "FileNotFoundError", "ValueError" }
                   THEN SysExit(err, "Error")
                   ELSE SysExit(err, "Unexpected Error")

\* args.command == "list-db"
ListDb ==
    \E db_files \in GlobOrders(files) :
        LET db_names == get_database_names(db_files)
        IN  /\ cmd' = [ op |-> "list-db" ]
            /\ out' = IF Len(db_names) = 0
                      THEN SysExit("SystemExit", "No database files found")
                      ELSE Done("names", db_names)
            /\ old' = files
            /\ UNCHANGED files

\* args.command == "create-db" (master_pwd is the password typed twice)
CreateDb(dbs) ==
    \E database \in dbs, master_pwd \in MasterPwds :
        LET r == create_empty_database(files, database, master_pwd)
        IN  /\ cmd' = [ op |-> "create-db", db |-> database, pwd |-> master_pwd ]
            /\ files' = r.files
            /\ out' = IF r.err = "ok"
                      THEN Done("Database created successfully.", <<>>)
                      ELSE SysExit(r.err, "Error")
            /\ old' = files

\* faulty variant: the file is opened for writing, which empties it
OpenDb_Truncates(dbs) ==
    \E database \in dbs, master_pwd \in MasterPwds :
        LET r == open_database(files, database, master_pwd)
        IN  /\ cmd' = [ op |-> "open-db", db |-> database, pwd |-> master_pwd ]
            /\ out' = IF r.err = "ok" THEN Done("table", r.rows)
                      ELSE OpenFailed(r.err)
            /\ old' = files
            /\ files' = IF exists(files, database)
                        THEN WriteFile(files, database, <<>>) ELSE files

\* args.command == "open-db"
OpenDb(dbs) ==
    \E database \in dbs, master_pwd \in MasterPwds :
        LET r == open_database(files, database, master_pwd)
        IN  /\ cmd' = [ op |-> "open-db", db |-> database, pwd |-> master_pwd ]
            /\ out' = IF r.err = "ok" THEN Done("table", r.rows)
                      ELSE OpenFailed(r.err)
            /\ old' = files
            /\ UNCHANGED files

\* args.command == "delete-db": the handler of FileNotFoundError prints err,
\* a local name of main that is not bound there (UnboundLocalError)
DeleteDb(dbs) ==
    \E database \in dbs :
        LET r == delete_database(files, database)
        IN  /\ cmd' = [ op |-> "delete-db", db |-> database ]
            /\ files' = r.files
            /\ out' = IF r.err = "ok"
                      THEN Done("Database deleted successfully.", <<>>)
                      ELSE Uncaught("UnboundLocalError")
            /\ old' = files

\* the rows after the first, over all files
RECURSIVE EntriesIn(_, _)
EntriesIn(fs, dbs) ==
    IF dbs = {} THEN 0
    ELSE LET d == CHOOSE x \in dbs : TRUE
         IN  (IF Len(fs[d]) > 0 THEN Len(fs[d]) - 1 ELSE 0) + EntriesIn(fs, dbs \ {d})

Entries(fs) == EntriesIn(fs, DOMAIN fs)

\* the index of the row the add command appends
NewIndex(rows) == str(Len(rows))

\* args.command == "add"
Add(dbs) ==
    \E database \in dbs, master_pwd \in MasterPwds,
       title \in Titles, username \in Usernames,
       password_length \in PasswordLengths :
        LET r == open_database(files, database, master_pwd)
            p == create_random_password(password_length)
            rows == Append(r.rows, << NewIndex(r.rows), title, username, p.value >>)
            s == save_database(files, database, master_pwd, rows)
        IN  /\ r.err = "ok" => Entries(files) < MaxEntries
            /\ cmd' = [ op |-> "add", db |-> database, pwd |-> master_pwd,
                        title |-> title, username |-> username,
                        password_length |-> password_length ]
            /\ old' = files
            /\ IF r.err # "ok"
               THEN out' = OpenFailed(r.err) /\ UNCHANGED files
               ELSE IF p.err # "ok"
               THEN out' = Uncaught(p.err) /\ UNCHANGED files
               ELSE /\ files' = s.files
                    /\ out' = IF s.err = "ok" THEN Done("table", rows)
                              ELSE Uncaught(s.err)

\* faulty variant: the range starts at 0
InRange_FromZero(index, rows) == index \in 0..(Len(rows) - 1)

\* args.index not in range(1, len(rows)), negated
InRange(index, rows) == index \in 1..(Len(rows) - 1)

\* faulty variant: rows.pop() without the index, which takes the last row
Pop_Last(rows, index) == SubSeq(rows, 1, Len(rows) - 1)

\* rows.pop(index)
Pop(rows, index) ==
    [ k \in 1..(Len(rows) - 1) |-> IF k < index + 1 THEN rows[k] ELSE rows[k + 1] ]

\* faulty variant: the loop left out
Reindex_Skipped(rows) == rows

\* the re-index loop: row[0] = str(index) for every row but the first
Reindex(rows) ==
    [ k \in 1..Len(rows) |->
          IF k > 1 THEN [ rows[k] EXCEPT ![1] = str(k - 1) ] ELSE rows[k] ]

\* row[0] = ... raises IndexError on a row without cells
ReindexRaises(rows) == \E k \in 2..Len(rows) : Len(rows[k]) = 0

\* args.command == "remove"
Remove(dbs) ==
    \E database \in dbs, master_pwd \in MasterPwds, index \in Indexes :
        LET r == open_database(files, database, master_pwd)
            popped == Pop(r.rows, index)
            rows == Reindex(popped)
            s == save_database(files, database, master_pwd, rows)
        IN  /\ cmd' = [ op |-> "remove", db |-> database, pwd |-> master_pwd,
                        index |-> index ]
            /\ old' = files
            /\ IF r.err # "ok"
               THEN out' = OpenFailed(r.err) /\ UNCHANGED files
               ELSE IF ~ InRange(index, r.rows)
               THEN /\ out' = SysExit("SystemExit", "Could not remove item: Invalid index")
                    /\ UNCHANGED files
               ELSE IF ReindexRaises(popped)
               THEN out' = Uncaught("IndexError") /\ UNCHANGED files
               ELSE /\ files' = s.files
                    /\ out' = IF s.err = "ok" THEN Done("table", rows)
                              ELSE Uncaught(s.err)

\* ------------------------------------------------------------ specification

\* no database file, no command issued yet
Init ==
    /\ files = [ d \in {} |-> <<>> ]
    /\ old = [ d \in {} |-> <<>> ]
    /\ cmd = [ op |-> "none" ]
    /\ out = Done("none", <<>>)

Next ==
    \/ ListDb
    \/ CreateDb(DatabaseNames)
    \/ OpenDb(DatabaseNames)
    \/ DeleteDb(DatabaseNames)
    \/ Add(DatabaseNames)
    \/ Remove(DatabaseNames)

Spec == Init /\ [][Next]_vars

\* ------------------------------------------- the functions called directly

\* an entry row as a caller of save_database passes it
EntryRow(i) == << str(i), << "S" >>, << "u" >>, << "a", "a", "A", "0", "!" >> >>

\* the rows the tests and other callers pass to save_database: with the
\* header first (an entry of them with an empty title, a comma, a quote),
\* without it (test_save_database_contains_row_data), none
SavedRows ==
    { << row_header >>,
      << row_header, EntryRow(1) >>,
      << row_header, << str(1), << >>, << "," >>, << "\"" >> >> >>,
      << row_header, EntryRow(1), EntryRow(2) >>,
      << EntryRow(1) >>,
      << >> }

\* save_database(database, master_pwd, rows) called by a test or a caller
\* other than main
SaveDatabase ==
    \E database \in OneDatabase, master_pwd \in MasterPwds, rows \in SavedRows :
        LET s == save_database(files, database, master_pwd, rows)
        IN  /\ cmd' = [ op |-> "save_database", db |-> database,
                        pwd |-> master_pwd, rows |-> rows ]
            /\ files' = s.files
            /\ out' = IF s.err = "ok" THEN Done("none", <<>>) ELSE Uncaught(s.err)
            /\ old' = files

\* what another program leaves in a *.mpmdb file: an empty file
\* (test_create_empty_database_raises_file_exists_error), a blank line, the
\* header in plain text (test_open_database_raises_value_error), a first row
\* that starts with "index" and goes on otherwise, a first row of one cell,
\* a first row that starts with "Index", a good header followed by a row of
\* plain text, by a blank line
ForeignFiles(master_pwd) ==
    { << >>,
      << << >> >>,
      << << RawCell(S_index), RawCell(S_title),
            RawCell(S_username), RawCell(S_password) >> >>,
      << EncryptRow(<< S_index, << "S" >>, S_username, S_password >>, master_pwd) >>,
      << EncryptRow(<< S_index >>, master_pwd) >>,
      << EncryptRow(<< << "I", "n", "d", "e", "x" >>, S_title,
                       S_username, S_password >>, master_pwd) >>,
      << EncryptRow(row_header, master_pwd),
         << RawCell(<< "1" >>), RawCell(<< "S" >>),
            RawCell(<< "u" >>), RawCell(<< "x" >>) >> >>,
      << EncryptRow(row_header, master_pwd), << >> >> }

\* a test or another program writes the file of a database
WriteForeign ==
    \E database \in OneDatabase, master_pwd \in MasterPwds :
        \E content \in ForeignFiles(master_pwd) :
            /\ cmd' = [ op |-> "write", db |-> database ]
            /\ files' = WriteFile(files, database, content)
            /\ out' = Done("none", <<>>)
            /\ old' = files

NextEnv ==
    \/ ListDb
    \/ CreateDb(OneDatabase)
    \/ OpenDb(OneDatabase)
    \/ DeleteDb(OneDatabase)
    \/ Add(OneDatabase)
    \/ Remove(OneDatabase)
    \/ SaveDatabase
    \/ WriteForeign

\* the commands, the direct calls and the files other programs leave
SpecEnv == Init /\ [][NextEnv]_vars

\* ------------------------------------------------- a save that is interrupted

\* a cell of which only a part reached the file: no token any more
CutCell == RawCell(<< "c", "u", "t" >>)

\* what is in a file of which only a part was written: some rows, then
\* possibly some cells of the next row, the last of them possibly cut
Cuts(full) ==
    { SubSeq(full, 1, k) : k \in 0..Len(full) }
    \cup UNION { { Append(SubSeq(full, 1, k - 1), SubSeq(full[k], 1, j)) :
                       j \in 1..(Len(full[k]) - 1) } : k \in 1..Len(full) }
    \cup UNION { { Append(SubSeq(full, 1, k - 1),
                          Append(SubSeq(full[k], 1, j - 1), CutCell)) :
                       j \in 1..Len(full[k]) } : k \in 1..Len(full) }

\* faulty variant: the rows go to another file that is renamed when complete
save_database_killed_Renamed(fs, database, master_pwd, rows) == { fs }

\* save_database(database, master_pwd, rows) when the process is killed
\* after open(db_file, "w") and before the file is closed: the files that
\* can be left
save_database_killed(fs, database, master_pwd, rows) ==
    { WriteFile(fs, database,
                Truncated(IF exists(fs, database) THEN fs[database] ELSE <<>>) \o c) :
          c \in Cuts([ r \in 1..Len(rows) |-> EncryptRow(rows[r], master_pwd) ]) }

\* the file is as a completed save leaves it: rows of four tokens.  The kill
\* is taken on such files only (a file that an earlier kill cut short is
\* opened, added to and removed from, but not cut a second time).
WholeFile(rows) ==
    \A r \in 1..Len(rows) :
        Len(rows[r]) = 4 /\ \A k \in 1..4 : "key" \in DOMAIN rows[r][k]

Killed(rows) == [ err |-> "Killed", exit |-> 1, msg |-> "none", rows |-> rows ]

\* the add command, killed while it saves
AddKilled(dbs) ==
    \E database \in dbs, master_pwd \in MasterPwds,
       title \in Titles, username \in Usernames,
       password_length \in PasswordLengths :
        LET r == open_database(files, database, master_pwd)
            p == create_random_password(password_length)
            rows == Append(r.rows, << NewIndex(r.rows), title, username, p.value >>)
        IN  /\ r.err = "ok" /\ p.err = "ok"
            /\ Entries(files) < MaxEntries
            /\ WholeFile(files[database])
            /\ Writable(rows) = Len(rows)
            /\ cmd' = [ op |-> "add", db |-> database, pwd |-> master_pwd,
                        title |-> title, username |-> username,
                        password_length |-> password_length ]
            /\ old' = files
            /\ files' \in save_database_killed(files, database, master_pwd, rows)
            /\ out' = Killed(rows)

\* the remove command, killed while it saves
RemoveKilled(dbs) ==
    \E database \in dbs, master_pwd \in MasterPwds, index \in Indexes :
        LET r == open_database(files, database, master_pwd)
            popped == Pop(r.rows, index)
            rows == Reindex(popped)
        IN  /\ r.err = "ok" /\ InRange(index, r.rows)
            /\ ~ ReindexRaises(popped)
            /\ WholeFile(files[database])
            /\ Writable(rows) = Len(rows)
            /\ cmd' = [ op |-> "remove", db |-> database, pwd |-> master_pwd,
                        index |-> index ]
            /\ old' = files
            /\ files' \in save_database_killed(files, database, master_pwd, rows)
            /\ out' = Killed(rows)

NextKilled ==
    \/ ListDb
    \/ CreateDb(OneDatabase)
    \/ OpenDb(OneDatabase)
    \/ DeleteDb(OneDatabase)
    \/ Add(OneDatabase)
    \/ Remove(OneDatabase)
    \/ AddKilled(OneDatabase)
    \/ RemoveKilled(OneDatabase)

\* the commands, each of which may be killed while it saves
SpecKilled == Init /\ [][NextKilled]_vars

\* ------------------------------------------- two databases, one of them foreign

NextOpen ==
    \/ CreateDb(DatabaseNames)
    \/ WriteForeign
    \/ OpenDb(DatabaseNames)
    \/ Add(DatabaseNames)
    \/ Remove(OneDatabase)

\* the commands that open a database, on two databases; other programs
\* write the file of the first, and entries are removed from it only
SpecOpen == Init /\ [][NextOpen]_vars

\* ------------------------------------------- create_random_password, called

\* the password_length of a direct call: None, or an integer from -2 on
LengthInputs == { <<>> } \cup { << n >> : n \in (-2)..MaxLength }

\* random.shuffle(password_characters): of the permutations it can draw,
\* the rotations, k places to the left
Shuffled(chars, k) ==
    [ i \in 1..Len(chars) |-> chars[((i + k - 1) % Len(chars)) + 1] ]

\* create_random_password(password_length) called by a test or by add
CreateRandomPassword ==
    \E password_length \in LengthInputs :
        LET p == create_random_password(password_length)
        IN  \E k \in 0..(IF p.err = "ok" THEN Len(p.value) - 1 ELSE 0) :
                /\ cmd' = [ op |-> "create_random_password",
                            password_length |-> password_length ]
                /\ out' = IF p.err = "ok"
                          THEN Done("password", << Shuffled(p.value, k) >>)
                          ELSE Uncaught(p.err)
                /\ old' = files
                /\ UNCHANGED files

NextPwd == CreateRandomPassword

\* the calls of create_random_password
SpecPwd == Init /\ [][NextPwd]_vars

\* ------------------------------------------------------------------ claims

\* the number of rows after the first
EntryCount(rows) == IF Len(rows) > 0 THEN Len(rows) - 1 ELSE 0

\* every cell of the file is a token sealed under master_pwd
SealedUnder(rows, master_pwd) ==
    \A r \in 1..Len(rows) : \A k \in 1..Len(rows[r]) :
        "key" \in DOMAIN rows[r][k] /\ rows[r][k].key = master_pwd

\* C1: whatever add and remove commands were run on the created vaults, the
\* rows open returns have, in every entry at position p (header excluded),
\* the index field str(p).
C1_ReindexInvariant ==
    \A database \in DatabaseNames, master_pwd \in MasterPwds :
        LET r == open_database(files, database, master_pwd)
        IN  r.err = "ok" =>
                \A p \in 1..EntryCount(r.rows) : r.rows[p + 1][1] = str(p)

\* a remove of the first of two entries was saved: the entry left was second
C1_Witness ==
    /\ cmd.op = "remove" /\ cmd.index = 1 /\ out.exit = 0
    /\ Len(old[cmd.db]) = 3 /\ Len(files[cmd.db]) = 2
    /\ decrypt(old[cmd.db][3][1], cmd.pwd) = str(2)
    /\ open_database(files, cmd.db, cmd.pwd).rows[2][1] = str(1)

\* C2: a vault sealed under one master password does not open under
\* another: open_database raises ValueError and returns no rows, and so
\* does every command that opens it.
C2_WrongSecret ==
    /\ \A database \in DOMAIN files, s1 \in MasterPwds, s2 \in MasterPwds :
           s1 # s2 /\ SealedUnder(files[database], s1) =>
               open_database(files, database, s2) =
                   [ err |-> "ValueError", rows |-> <<>> ]
    /\ \A s1 \in MasterPwds :
           /\ cmd.op \in { "open-db", "add", "remove" }
           /\ exists(old, cmd.db)
           /\ SealedUnder(old[cmd.db], s1)
           /\ cmd.pwd # s1
           => out.err = "ValueError" /\ out.exit = 1 /\ out.rows = <<>>
                  /\ files = old

\* open-db with the other password on a vault that holds an entry
C2_Witness ==
    /\ cmd.op = "open-db" /\ out.err = "ValueError"
    /\ Len(files[cmd.db]) = 2
    /\ \E s1 \in MasterPwds : s1 # cmd.pwd /\ SealedUnder(files[cmd.db], s1)

\* C3 as stated: open returns rows only if the whole first row decrypts to
\* the canonical header, and fails with ValueError on every other first row
\* that has cells.
C3_AllFourFields ==
    \A database \in DOMAIN files, master_pwd \in MasterPwds :
        LET r == open_database(files, database, master_pwd)
        IN  /\ r.err = "ok" =>
                   DecryptRow(files[database][1], master_pwd) = row_header
            /\ ( /\ Len(files[database]) > 0
                 /\ Len(files[database][1]) > 0
                 /\ DecryptRow(files[database][1], master_pwd) # row_header )
               => r.err = "ValueError"

\* C3, amended: open returns rows exactly when the first cell of the first
\* row decrypts to "index", compared as it is; a first cell that decrypts to
\* anything else is a ValueError; the other cells of the row are not compared.
C3_FirstCellOnly ==
    \A database \in DOMAIN files, master_pwd \in MasterPwds :
        LET r == open_database(files, database, master_pwd)
            rows == files[database]
            has_first == Len(rows) > 0 /\ Len(rows[1]) > 0
        IN  /\ r.err = "ok" <=>
                   (has_first /\ decrypt(rows[1][1], master_pwd) = S_index)
            /\ has_first /\ decrypt(rows[1][1], master_pwd) # S_index
                   => r.err = "ValueError"
            /\ r.err = "ok" =>
                   r.rows = [ k \in 1..Len(rows) |-> DecryptRow(rows[k], master_pwd) ]

\* open-db printed rows whose first row is not the canonical header
C3_Witness ==
    /\ cmd.op = "open-db" /\ out.exit = 0
    /\ out.rows[1] # row_header
    /\ out.rows[1][1] = S_index

\* C4: create on a name without file, then open with the same password,
\* gives one row, the canonical header, and no entry.
C4_CreateThenOpen ==
    /\ cmd.op = "create-db" /\ ~ exists(old, cmd.db) =>
           /\ out.exit = 0
           /\ open_database(files, cmd.db, cmd.pwd) =
                  [ err |-> "ok", rows |-> << row_header >> ]
    /\ \A database \in DatabaseNames, master_pwd \in MasterPwds :
           ~ exists(files, database) =>
               open_database(create_empty_database(files, database, master_pwd).files,
                             database, master_pwd).rows = << row_header >>
    /\ ( /\ cmd.op = "open-db" /\ exists(files, cmd.db)
         /\ files[cmd.db] =
                create_empty_database(RemoveFile(files, cmd.db), cmd.db, cmd.pwd).files[cmd.db] )
       => out = Done("table", << row_header >>)

\* open-db printed the header alone, of a vault created after another one
C4_Witness ==
    /\ cmd.op = "open-db" /\ out.exit = 0
    /\ out.rows = << row_header >>
    /\ Cardinality(DOMAIN files) = 2

\* C5: create on a name whose file exists raises FileExistsError and leaves
\* every file as it was, whatever the password and whatever the file holds.
C5_CreateExisting ==
    cmd.op = "create-db" /\ exists(old, cmd.db) =>
        /\ out.err = "FileExistsError" /\ out.exit = 1
        /\ files = old

\* create-db on an empty file, as in the test
C5_Witness ==
    /\ cmd.op = "create-db" /\ exists(old, cmd.db)
    /\ old[cmd.db] = <<>>
    /\ out.err = "FileExistsError"

\* C6: save of rows that start with the canonical header, then open with the
\* same password, returns exactly those rows, whatever the file held.
C6_SaveThenOpen ==
    ( /\ cmd.op = "save_database"
      /\ Len(cmd.rows) > 0
      /\ cmd.rows[1] = row_header )
    => /\ out.err = "ok"
       /\ open_database(files, cmd.db, cmd.pwd) = [ err |-> "ok", rows |-> cmd.rows ]
       /\ Len(files[cmd.db]) = Len(cmd.rows)

\* fewer rows were saved than the file held, under another password
C6_Witness ==
    /\ cmd.op = "save_database" /\ out.err = "ok"
    /\ cmd.rows = << row_header, EntryRow(1) >>
    /\ exists(old, cmd.db) /\ Len(old[cmd.db]) = 3
    /\ \E s1 \in MasterPwds : s1 # cmd.pwd /\ SealedUnder(old[cmd.db], s1)

\* C7: remove with an index outside 1..entry count exits with the invalid
\* index message and status 1, and no file is written.
C7_RemoveOutOfRange ==
    ( /\ cmd.op = "remove"
      /\ open_database(old, cmd.db, cmd.pwd).err = "ok"
      /\ cmd.index \notin 1..EntryCount(open_database(old, cmd.db, cmd.pwd).rows) )
    => /\ out = SysExit("SystemExit", "Could not remove item: Invalid index")
       /\ files = old

\* remove with index 0 on a vault of two entries
C7_Witness ==
    /\ cmd.op = "remove" /\ cmd.index = 0
    /\ out.msg = "Could not remove item: Invalid index"
    /\ Len(old[cmd.db]) = 3

\* C8: delete removes the file of an existing vault and only it; from then
\* on open raises FileNotFoundError under every password, and the file is
\* back only by create; delete without a file raises FileNotFoundError and
\* changes nothing.
C8_Delete ==
    /\ cmd.op = "delete-db" /\ exists(old, cmd.db) =>
           /\ out.exit = 0
           /\ files = RemoveFile(old, cmd.db)
    /\ cmd.op = "delete-db" /\ ~ exists(old, cmd.db) =>
           /\ delete_database(old, cmd.db).err = "FileNotFoundError"
           /\ out.exit = 1
           /\ files = old
    /\ \A database \in DatabaseNames, master_pwd \in MasterPwds :
           ~ exists(files, database) =>
               open_database(files, database, master_pwd) =
                   [ err |-> "FileNotFoundError", rows |-> <<>> ]
    /\ \A database \in DatabaseNames :
           ~ exists(old, database) /\ exists(files, database) =>
               cmd.op = "create-db" /\ cmd.db = database

\* a vault that held an entry was deleted
C8_Witness ==
    /\ cmd.op = "delete-db" /\ out.exit = 0
    /\ Len(old[cmd.db]) = 2

\* the file a completed save of rows under master_pwd writes
Saved(rows, master_pwd) == [ r \in 1..Len(rows) |-> EncryptRow(rows[r], master_pwd) ]

\* row is a row of the file cut short: the first cells of full, the last of
\* them possibly cut
CutOf(row, full) ==
    /\ Len(row) <= Len(full)
    /\ \A k \in 1..(Len(row) - 1) : row[k] = full[k]
    /\ Len(row) > 0 => row[Len(row)] \in { full[Len(row)], CutCell }

\* C9 as stated: when the process is killed during a save, the file holds
\* the complete rows it held before or the complete new rows, and opens.
C9_CrashAtomic ==
    out.err = "Killed" =>
        /\ files[cmd.db] \in { old[cmd.db], Saved(out.rows, cmd.pwd) }
        /\ open_database(files, cmd.db, cmd.pwd).err = "ok"

\* C9, amended: the file is truncated and written in place; when the process
\* is killed during a save the file holds a leading part of the new rows,
\* possibly none, possibly ending inside a row; a save that completes leaves
\* the complete new rows.
C9_LeadingPartOfNew ==
    /\ out.err = "Killed" =>
           LET full == Saved(out.rows, cmd.pwd)
               left == files[cmd.db]
           IN  /\ Len(left) <= Len(full)
               /\ \A r \in 1..(Len(left) - 1) : left[r] = full[r]
               /\ Len(left) > 0 => CutOf(left[Len(left)], full[Len(left)])
               /\ \A d \in DOMAIN old \ {cmd.db} :
                      exists(files, d) /\ files[d] = old[d]
    /\ cmd.op \in { "add", "remove" } /\ out.exit = 0 =>
           files[cmd.db] = Saved(out.rows, cmd.pwd)

\* a remove was killed and left an empty file where two entries were
C9_Witness ==
    /\ out.err = "Killed" /\ cmd.op = "remove"
    /\ Len(old[cmd.db]) = 3
    /\ open_database(old, cmd.db, cmd.pwd).err = "ok"
    /\ files[cmd.db] = <<>>

\* the file has no row, a first row without cell, or a cell that is no token
Malformed(rows) ==
    \/ Len(rows) = 0
    \/ Len(rows[1]) = 0
    \/ \E r \in 1..Len(rows) : \E k \in 1..Len(rows[r]) : "key" \notin DOMAIN rows[r][k]

\* C10 as stated: open of a malformed file fails with an error of its own
\* kind, CorruptStore, and the rows open returns hold decrypted text only.
C10_CorruptStore ==
    \A database \in DOMAIN files, master_pwd \in MasterPwds :
        LET r == open_database(files, database, master_pwd)
        IN  /\ Malformed(files[database]) => r.err = "CorruptStore"
            /\ r.err = "ok" =>
                   \A i \in 1..Len(r.rows) : \A k \in 1..Len(r.rows[i]) :
                       IsStr(r.rows[i][k])

\* the number of characters c in chars
Count(chars, c) == Cardinality({ i \in DOMAIN chars : chars[i] = c })

\* C11: for every integer length L, with n = max(L, 5), the password has
\* exactly n characters: n \div 4 upper case, n \div 4 digits, n \div 4
\* punctuation and n \div 4 + n % 4 lower case.
C11_PasswordGeneration ==
    cmd.op = "create_random_password" /\ cmd.password_length # <<>> =>
        LET L == cmd.password_length[1]
            n == IF L < 5 THEN 5 ELSE L
        IN  /\ out.err = "ok"
            /\ Len(out.rows) = 1
            /\ Len(out.rows[1]) = n
            /\ Count(out.rows[1], "A") = n \div 4
            /\ Count(out.rows[1], "0") = n \div 4
            /\ Count(out.rows[1], "!") = n \div 4
            /\ Count(out.rows[1], "a") = (n \div 4) + (n % 4)

\* C12: the names get_database_names returns are exactly the names of the
\* databases whose file exists, in whatever order glob gives the files, and
\* the list-db command prints those; without files the result is empty.
C12_ListNames ==
    /\ \A db_files \in GlobOrders(files) :
           LET db_names == get_database_names(db_files)
           IN  \A database \in DatabaseNames :
                   (\E i \in 1..Len(db_names) : db_names[i] = database)
                       <=> exists(files, database)
    /\ cmd.op = "list-db" /\ out.exit = 0 =>
           \A database \in DatabaseNames :
               (\E i \in 1..Len(out.rows) : out.rows[i] = database)
                   <=> exists(files, database)
    /\ DOMAIN files = {} => get_database_names(<< >>) = << >>

\* C13: remove at a position p in 1..entry count persists the rows as they
\* were with the entry at p deleted: the header stays first, the entries
\* left keep their order and their title, username and password, the
\* entries before p keep their index too, and no other file changes.
C13_RemoveExact ==
    ( /\ cmd.op = "remove"
      /\ open_database(old, cmd.db, cmd.pwd).err = "ok"
      /\ cmd.index \in 1..EntryCount(open_database(old, cmd.db, cmd.pwd).rows) )
    => LET before == open_database(old, cmd.db, cmd.pwd).rows
           after  == open_database(files, cmd.db, cmd.pwd)
           p      == cmd.index
       IN  /\ out.exit = 0
           /\ after.err = "ok"
           /\ Len(after.rows) = Len(before) - 1
           /\ after.rows[1] = before[1]
           /\ \A k \in 2..Len(after.rows) :
                  LET was == IF k - 1 < p THEN before[k] ELSE before[k + 1]
                  IN  /\ Tail(after.rows[k]) = Tail(was)
                      /\ k - 1 < p => after.rows[k] = was
           /\ p = EntryCount(before) =>
                  after.rows = SubSeq(before, 1, Len(before) - 1)
           /\ \A d \in DOMAIN old \ {cmd.db} : exists(files, d) /\ files[d] = old[d]
           /\ DOMAIN files = DOMAIN old

\* the first of two entries with different passwords was removed
C13_Witness ==
    /\ cmd.op = "remove" /\ cmd.index = 1 /\ out.exit = 0
    /\ Len(old[cmd.db]) = 3
    /\ decrypt(old[cmd.db][2][4], cmd.pwd) # decrypt(old[cmd.db][3][4], cmd.pwd)
    /\ decrypt(files[cmd.db][2][4], cmd.pwd) = decrypt(old[cmd.db][3][4], cmd.pwd)

\* C14: add on a vault of N entries persists the rows as they were with one
\* row appended, [str(N + 1), title, username, generated password]; the
\* header and the N entries are unchanged and open under the same password
\* returns those rows.
C14_AddAppends ==
    cmd.op = "add" /\ open_database(old, cmd.db, cmd.pwd).err = "ok" =>
        LET before == open_database(old, cmd.db, cmd.pwd).rows
            after  == open_database(files, cmd.db, cmd.pwd)
            N      == EntryCount(before)
        IN  /\ out.exit = 0
            /\ after.err = "ok"
            /\ Len(after.rows) = Len(before) + 1
            /\ SubSeq(after.rows, 1, Len(before)) = before
            /\ SubSeq(after.rows[N + 2], 1, 3) = << str(N + 1), cmd.title, cmd.username >>
            /\ Len(after.rows[N + 2]) = 4
            /\ Len(after.rows[N + 2][4]) >= MINIMUM_LENGTH
            /\ out.rows = after.rows

\* C15: in every state reached through create-db, add, remove and delete-db
\* commands, each existing file has the header as its first row, and every
\* row has exactly 4 cells, each a token of its own sealed under the
\* password the vault was created with.
C15_StoreShape ==
    \A d \in DOMAIN files :
        /\ Len(files[d]) >= 1
        /\ \E master_pwd \in MasterPwds :
               /\ DecryptRow(files[d][1], master_pwd) = row_header
               /\ SealedUnder(files[d], master_pwd)
        /\ \A r \in 1..Len(files[d]) :
               /\ Len(files[d][r]) = 4
               /\ \A k \in 1..4 : DOMAIN files[d][r][k] = { "ct", "key" }
               /\ \A k \in 1..4 : IsStr(files[d][r][k].ct)

C15_Witness ==
    /\ cmd.op = "remove" /\ out.exit = 0
    /\ exists(files, cmd.db) /\ Len(files[cmd.db]) = 2
    /\ Len(old[cmd.db]) = 3
    /\ \E d \in DOMAIN files : d # cmd.db

\* the command ran into one of the error kinds: the database exists already
\* (create-db), it is missing or the password is wrong (open-db, add,
\* remove), it is missing (delete-db), the index is out of range (remove)
ErrorKind ==
    \/ cmd.op = "create-db" /\ exists(old, cmd.db)
    \/ /\ cmd.op \in { "open-db", "add", "remove" }
       /\ open_database(old, cmd.db, cmd.pwd).err \in { "FileNotFoundError", "ValueError" }
    \/ cmd.op = "delete-db" /\ ~ exists(old, cmd.db)
    \/ /\ cmd.op = "remove"
       /\ open_database(old, cmd.db, cmd.pwd).err = "ok"
       /\ ~ InRange(cmd.index, open_database(old, cmd.db, cmd.pwd).rows)

\* C16: every command that ends in an error kind ends with a one-line error
\* message and a non-zero exit status.
C16_ErrorMessages ==
    ErrorKind => /\ out.exit # 0
                 /\ out.msg \in { "Error", "Could not remove item: Invalid index" }

\* C17: open-db leaves every file as it was, whatever its outcome (rows, a
\* missing file, a wrong password, a malformed file), and an add or remove
\* whose open_database call fails saves nothing and ends in the handler of
\* that failure.
C17_OpenReadOnly ==
    /\ cmd.op = "open-db" => files = old
    /\ ( /\ cmd.op \in { "add", "remove" }
         /\ open_database(old, cmd.db, cmd.pwd).err # "ok" )
       => /\ files = old
          /\ out = OpenFailed(open_database(old, cmd.db, cmd.pwd).err)

C17_Witness ==
    /\ cmd.op = "open-db" /\ out.err = "IndexError"
    /\ exists(files, cmd.db) /\ files = old
    /\ \E d \in DOMAIN files : d # cmd.db /\ Len(files[d]) = 3

\* C18: an add command without -l (args.password_length is None) on a
\* database that opens succeeds, and the file holds one more row, whose
\* password has the default length of 10 characters.
C18_AddDefaultLength ==
    ( /\ cmd.op = "add"
      /\ cmd.password_length = << >>
      /\ open_database(old, cmd.db, cmd.pwd).err = "ok" )
    => LET before == open_database(old, cmd.db, cmd.pwd).rows
           after  == open_database(files, cmd.db, cmd.pwd)
       IN  /\ out.exit = 0
           /\ after.err = "ok"
           /\ Len(after.rows) = Len(before) + 1
           /\ Len(after.rows[Len(after.rows)][4]) = 10

====
